---------------------------- MODULE Spec2Model ----------------------------
(***************************************************************************)
(* A model of monadbobo/skiplist-rust: the bump arena (src/src/arena.rs)   *)
(* and the single-writer skip list with its cursor (src/src/lib.rs).       *)
(*                                                                         *)
(* Addresses are natural numbers, 0 is the null pointer.  The arena is a   *)
(* record with the fields of `struct Arena`; a skip list node lives at the *)
(* address the arena returned for it.                                      *)
(***************************************************************************)
EXTENDS Integers, Sequences, FiniteSets, TLC

VARIABLES
    arena,      \* struct Arena: alloc_ptr, alloc_bytes_remaining, blocks, memory_usage
    allocs,     \* history: one record per allocate / allocate_aligned call that returned
    requested,  \* history: cumulative bytes asked of the arena
    freed,      \* history: the (pointer, Layout size) of every std::alloc::dealloc call
    dropped,    \* the arena (with the list that owns it, if any) has been dropped
    head,       \* SkipList.head
    max_height, \* SkipList.max_height
    rnd,        \* SkipList.rnd: how many values have been drawn from it
    nodes,      \* the nodes written into the arena: address -> [key, next]
    heap,       \* the buffers of the nodes' `next` Vecs, as the global allocator holds them
    w_pc,       \* the owner's position: idle, inside insert, or abort (an assert! failed)
    w_key,      \* insert: key
    w_prev,     \* insert: prev
    w_height,   \* insert: height
    w_node,     \* insert: new_node
    w_i,        \* insert: i of the wiring loop
    it_node,    \* SkipListIterator.node of the reader's cursor
    r_pc,       \* the reader's position: idle, or the search it is inside
    r_op,       \* the reader's operation that called the search
    r_key,      \* the search's key
    r_x,        \* the search's x
    r_level,    \* the search's level
    r_ret,      \* what the reader's last contains returned
    inserted,   \* history: keys whose insert has returned
    mh_stored,  \* history: every value max_height has held
    walk_kind,  \* history: how the cursor's walk began (none, first, seek, last, mixed)
    walk_target,\* history: the target of the seek that began the walk
    walk,       \* history: keys the cursor reported since the walk began
    walk_snap,  \* history: `inserted` when the walk began
    walk_seen   \* history: the keys >= target linked at level 0 when the seek now searching began

arenaVars == <<arena, allocs, requested, freed, dropped>>

listVars == <<head, max_height, rnd, nodes, heap>>

writerVars == <<w_pc, w_key, w_prev, w_height, w_node, w_i, inserted, mh_stored>>

searchVars == <<r_pc, r_op, r_key, r_x, r_level>>

walkVars == <<walk_kind, walk_target, walk, walk_snap, walk_seen>>

readerVars == <<it_node, searchVars, r_ret, walkVars>>

vars == <<arenaVars, listVars, writerVars, readerVars>>

-----------------------------------------------------------------------------
(* Program constants *)

BLOCK_SIZE == 4096

\* std::mem::size_of::<*mut ()>() on the 64-bit targets the crate is built for
PtrSize == 8

\* `align` of allocate_aligned
Align == IF PtrSize > 8 THEN PtrSize ELSE 8

Null == 0

MAX_HEIGHT == 12

\* Layout::new::<Node<K>>().size() for the u64 keys of the tests: key + Vec
NodeSize == 32

\* K::default(), the key stored in the head
DefaultKey == 0

-----------------------------------------------------------------------------
(* Bounds of the model *)

\* number of allocate / allocate_aligned calls made on one arena
MaxAllocs == 5

\* keys are 0 .. MaxKey - 1
MaxKey == 3

\* the random source never makes random_height return more than this
MaxRandomHeight == 2

Keys == 0 .. MaxKey - 1

\* the same two bounds for the runs with a concurrent reader
ConcMaxKey == 2

ConcMaxRandomHeight == 2

ConcKeys == 0 .. ConcMaxKey - 1

\* runs of zeros the random source yields when the inserts run alone: the
\* short ones, one that stops a level below MAX_HEIGHT and one longer than
\* random_height reads
TallZeros == (0 .. MaxRandomHeight - 1) \cup {MAX_HEIGHT - 2, MAX_HEIGHT + 1}

Levels == 0 .. MAX_HEIGHT - 1

-----------------------------------------------------------------------------
(* The underlying allocator (std::alloc::alloc with Layout align 1).        *)
(* The n-th block it hands out lies in the n-th slot of the address space,  *)
(* at an offset the arena does not control: alignment 1 promises nothing.   *)

SlotSize == 2 * BLOCK_SIZE

BaseOffsets == {0, 3}

SysBase(a, off) == (Len(a.blocks) + 1) * SlotSize + off

\* request sizes tried: 1 byte, just under / exactly / just over BLOCK_SIZE / 4
Sizes == {1, BLOCK_SIZE \div 4 - 24, BLOCK_SIZE \div 4, BLOCK_SIZE \div 4 + 1}

-----------------------------------------------------------------------------
(* Arena *)

\* Arena::new
ArenaNew ==
    [alloc_ptr |-> Null, alloc_bytes_remaining |-> 0,
     blocks |-> <<>>, layouts |-> <<>>, memory_usage |-> 0]

\* a block counted without the pointer_size term
AllocateNewBlockNoPtr(a, block_bytes, base) ==
    [arena  |-> [a EXCEPT !.blocks = Append(@, base),
                          !.layouts = Append(@, block_bytes),
                          !.memory_usage = @ + block_bytes],
     result |-> base]

\* Arena::allocate_new_block; `base` is what std::alloc::alloc returns.
\* `layouts` records the Layout size each block was obtained with (the
\* allocator's own bookkeeping, not a field of the struct).
AllocateNewBlock(a, block_bytes, base) ==
    [arena  |-> [a EXCEPT !.blocks = Append(@, base),
                          !.layouts = Append(@, block_bytes),
                          !.memory_usage = @ + block_bytes + PtrSize],
     result |-> base]

\* a fallback that gives a request of exactly BLOCK_SIZE / 4 a block of its own
AllocateFallbackAtQuarter(a, bytes, base) ==
    IF bytes >= BLOCK_SIZE \div 4
    THEN AllocateNewBlock(a, bytes, base)
    ELSE LET nb == AllocateNewBlock(a, BLOCK_SIZE, base)
         IN  [arena  |-> [nb.arena EXCEPT !.alloc_ptr = nb.result + bytes,
                                          !.alloc_bytes_remaining = BLOCK_SIZE - bytes],
              result |-> nb.result]

\* a fallback that makes every new block the current one
AllocateFallbackAlwaysCurrent(a, bytes, base) ==
    LET nb == AllocateNewBlock(a, IF bytes > BLOCK_SIZE \div 4 THEN bytes ELSE BLOCK_SIZE, base)
    IN  [arena  |-> [nb.arena EXCEPT !.alloc_ptr = nb.result + bytes,
                                     !.alloc_bytes_remaining = BLOCK_SIZE - bytes],
         result |-> nb.result]

\* Arena::allocate_fallback
AllocateFallback(a, bytes, base) ==
    IF bytes > BLOCK_SIZE \div 4
    THEN AllocateNewBlock(a, bytes, base)
    ELSE LET nb == AllocateNewBlock(a, BLOCK_SIZE, base)
         IN  [arena  |-> [nb.arena EXCEPT !.alloc_ptr = nb.result + bytes,
                                          !.alloc_bytes_remaining = BLOCK_SIZE - bytes],
              result |-> nb.result]

\* Arena::allocate, for bytes > 0 (the assert! of line 30 is the caller's guard)
Allocate(a, bytes, base) ==
    IF bytes <= a.alloc_bytes_remaining
    THEN [arena  |-> [a EXCEPT !.alloc_ptr = @ + bytes,
                               !.alloc_bytes_remaining = @ - bytes],
          result |-> a.alloc_ptr]
    ELSE AllocateFallback(a, bytes, base)

\* Arena::allocate_aligned
AllocateAligned(a, bytes, base) ==
    LET current_mod == a.alloc_ptr % Align
        slop        == IF current_mod = 0 THEN 0 ELSE Align - current_mod
        needed      == bytes + slop
    IN  IF needed <= a.alloc_bytes_remaining
        THEN [arena  |-> [a EXCEPT !.alloc_ptr = @ + needed,
                                   !.alloc_bytes_remaining = @ - needed],
              result |-> a.alloc_ptr + slop]
        ELSE AllocateFallback(a, bytes, base)

\* Arena::memory_usage
MemoryUsage(a) == a.memory_usage

\* Drop for Arena: the dealloc calls it makes, one per entry of `blocks`, each
\* with Layout::from_size_align(BLOCK_SIZE, 1)
ArenaDrop(a) ==
    [b \in 1 .. Len(a.blocks) |-> [ptr |-> a.blocks[b], bytes |-> BLOCK_SIZE]]

-----------------------------------------------------------------------------
(* The global allocator, as Vec uses it for the `next` array of a node: the  *)
(* buffers lie below the slots of the arena's blocks, one after the other    *)
(* (live allocations of one allocator never overlap).                        *)

VecBase(hp) == PtrSize + Len(hp) * MAX_HEIGHT * PtrSize

\* Vec::with_capacity(height) of Node::new, for the node written at `node`
VecNew(hp, node, height) ==
    Append(hp, [ptr |-> VecBase(hp), bytes |-> height * PtrSize, node |-> node])

-----------------------------------------------------------------------------
(* Node and the searches of SkipList.  Levels are 0-based as in the code;   *)
(* reading next[level] of a node shorter than level + 1, or of the null     *)
(* pointer, is a panic in the code and an evaluation error here.            *)

\* Node::new
NodeNew(key, height) == [key |-> key, next |-> [l \in 0 .. height - 1 |-> Null]]

\* Node::next, Node::no_barrier_next
NodeNext(x, level) == nodes[x].next[level]

\* the store of Node::set_next, Node::no_barrier_set_next
SetNext(ns, x, level, n) == [ns EXCEPT ![x].next[level] = n]

\* key_is_after_node comparing with <= instead of <
KeyIsAfterNodeOrEqual(key, n) == n # Null /\ nodes[n].key <= key

\* SkipList::key_is_after_node
KeyIsAfterNode(key, n) == n # Null /\ nodes[n].key < key

\* find_greater_or_equal storing prev[level] = x at level 0 only
FgeStepRecordsLast(key, x, level) ==
    LET next == NodeNext(x, level)
    IN  IF KeyIsAfterNode(key, next)
        THEN [x |-> next, level |-> level, record |-> FALSE, done |-> FALSE, ret |-> Null]
        ELSE IF level = 0
             THEN [x |-> x, level |-> level, record |-> TRUE, done |-> TRUE, ret |-> next]
             ELSE [x |-> x, level |-> level - 1, record |-> FALSE, done |-> FALSE, ret |-> Null]

\* find_greater_or_equal returning `next` at the level it first stops at,
\* without descending to level 0
FgeStepNoDescend(key, x, level) ==
    LET next == NodeNext(x, level)
    IN  IF KeyIsAfterNode(key, next)
        THEN [x |-> next, level |-> level, record |-> FALSE, done |-> FALSE, ret |-> Null]
        ELSE [x |-> x, level |-> level, record |-> TRUE, done |-> TRUE, ret |-> next]

\* find_greater_or_equal returning x, the predecessor, instead of next
FgeStepReturnsX(key, x, level) ==
    LET next == NodeNext(x, level)
    IN  IF KeyIsAfterNode(key, next)
        THEN [x |-> next, level |-> level, record |-> FALSE, done |-> FALSE, ret |-> Null]
        ELSE IF level = 0
             THEN [x |-> x, level |-> level, record |-> TRUE, done |-> TRUE, ret |-> x]
             ELSE [x |-> x, level |-> level - 1, record |-> TRUE, done |-> FALSE, ret |-> Null]

\* one iteration of the loop of find_greater_or_equal: `record` says whether
\* prev[level] = x is stored, `done` whether the loop returns `ret`
FgeStep(key, x, level) ==
    LET next == NodeNext(x, level)
    IN  IF KeyIsAfterNode(key, next)
        THEN [x |-> next, level |-> level, record |-> FALSE, done |-> FALSE, ret |-> Null]
        ELSE IF level = 0
             THEN [x |-> x, level |-> level, record |-> TRUE, done |-> TRUE, ret |-> next]
             ELSE [x |-> x, level |-> level - 1, record |-> TRUE, done |-> FALSE, ret |-> Null]

\* find_less_than descending only at keys > key, so that it passes a node of key `key`
FltStepGreater(key, x, level) ==
    LET next == NodeNext(x, level)
    IN  IF next = Null \/ nodes[next].key > key
        THEN IF level = 0
             THEN [x |-> x, level |-> level, done |-> TRUE, ret |-> x]
             ELSE [x |-> x, level |-> level - 1, done |-> FALSE, ret |-> Null]
        ELSE [x |-> next, level |-> level, done |-> FALSE, ret |-> Null]

\* one iteration of the loop of find_less_than
FltStep(key, x, level) ==
    LET next == NodeNext(x, level)
    IN  IF next = Null \/ nodes[next].key >= key
        THEN IF level = 0
             THEN [x |-> x, level |-> level, done |-> TRUE, ret |-> x]
             ELSE [x |-> x, level |-> level - 1, done |-> FALSE, ret |-> Null]
        ELSE [x |-> next, level |-> level, done |-> FALSE, ret |-> Null]

\* find_last that never assigns x = next
FindLastStepStays(x, level) ==
    LET next == NodeNext(x, level)
    IN  IF next = Null
        THEN IF level = 0
             THEN [x |-> x, level |-> level, done |-> TRUE, ret |-> x]
             ELSE [x |-> x, level |-> level - 1, done |-> FALSE, ret |-> Null]
        ELSE [x |-> x, level |-> level, done |-> FALSE, ret |-> Null]

\* one iteration of the loop of find_last
FindLastStep(x, level) ==
    LET next == NodeNext(x, level)
    IN  IF next = Null
        THEN IF level = 0
             THEN [x |-> x, level |-> level, done |-> TRUE, ret |-> x]
             ELSE [x |-> x, level |-> level - 1, done |-> FALSE, ret |-> Null]
        ELSE [x |-> next, level |-> level, done |-> FALSE, ret |-> Null]

\* find_greater_or_equal(key, Some(prev)) run to its return, as insert calls it
RECURSIVE FindGreaterOrEqual(_, _, _, _)
FindGreaterOrEqual(key, x, level, prev) ==
    LET s  == FgeStep(key, x, level)
        pv == IF s.record THEN [prev EXCEPT ![level] = x] ELSE prev
    IN  IF s.done
        THEN [ret |-> s.ret, prev |-> pv]
        ELSE FindGreaterOrEqual(key, s.x, s.level, pv)

\* the nodes linked after x at `level`, following at most `fuel` pointers
RECURSIVE ChainFrom(_, _, _)
ChainFrom(x, level, fuel) ==
    IF fuel = 0 \/ level \notin DOMAIN nodes[x].next \/ NodeNext(x, level) = Null
    THEN {}
    ELSE {NodeNext(x, level)} \cup ChainFrom(NodeNext(x, level), level, fuel - 1)

\* the nodes a search can reach from the head at `level`
Reachable(level) == ChainFrom(head, level, Cardinality(DOMAIN nodes))

\* the keys a search can reach at level 0
LevelZeroKeys == {nodes[n].key : n \in Reachable(0)}

\* a loop that goes on while the source yields zeros, whatever the height
RandomHeightUncapped(zeros) == 1 + zeros

\* random_height when the source yields `zeros` zeros in a row: the height
RandomHeight(zeros) == IF 1 + zeros < MAX_HEIGHT THEN 1 + zeros ELSE MAX_HEIGHT

\* random_height: how many values it draws to return `height`
RandomDraws(height) == IF height < MAX_HEIGHT THEN height ELSE MAX_HEIGHT - 1

\* contains has not returned anything
NoRet == [returned |-> FALSE, key |-> DefaultKey, val |-> FALSE]

\* vec![ptr::null_mut(); MAX_HEIGHT]
NullPrev == [l \in Levels |-> Null]

-----------------------------------------------------------------------------
(* SkipList::new(Arena::new()) and a fresh cursor *)

WriterIdle ==
    /\ w_pc = "idle"
    /\ w_key = DefaultKey
    /\ w_prev = NullPrev
    /\ w_height = 0
    /\ w_node = Null
    /\ w_i = 0

SearchIdle ==
    /\ r_pc = "idle"
    /\ r_op = "none"
    /\ r_key = DefaultKey
    /\ r_x = Null
    /\ r_level = 0

NoWalk ==
    /\ walk_kind = "none"
    /\ walk_target = DefaultKey
    /\ walk = <<>>
    /\ walk_snap = {}
    /\ walk_seen = {}

\* insert returns: its frame is gone
WriterReturn ==
    /\ w_pc' = "idle"
    /\ w_key' = DefaultKey
    /\ w_prev' = NullPrev
    /\ w_height' = 0
    /\ w_node' = Null
    /\ w_i' = 0

\* a search returns: its frame is gone
SearchReturn ==
    /\ r_pc' = "idle"
    /\ r_op' = "none"
    /\ r_key' = DefaultKey
    /\ r_x' = Null
    /\ r_level' = 0

ForgetWalk ==
    /\ walk_kind' = "none"
    /\ walk_target' = DefaultKey
    /\ walk' = <<>>
    /\ walk_snap' = {}
    /\ walk_seen' = {}

\* SkipList::new(Arena::new()): the head is the arena's first allocation, in a
\* block the allocator placed at the start of its slot
ListInit ==
    /\ LET r == Allocate(ArenaNew, NodeSize, SysBase(ArenaNew, 0))
       IN  /\ arena = r.arena
           /\ allocs = <<[ptr |-> r.result, bytes |-> NodeSize, aligned |-> FALSE]>>
           /\ head = r.result
           /\ nodes = (r.result :> NodeNew(DefaultKey, MAX_HEIGHT))
           /\ heap = VecNew(<<>>, r.result, MAX_HEIGHT)
    /\ requested = NodeSize
    /\ freed = <<>>
    /\ dropped = FALSE
    /\ max_height = 1
    /\ rnd = 0
    /\ WriterIdle
    /\ inserted = {}
    /\ mh_stored = {1}
    /\ it_node = Null
    /\ SearchIdle
    /\ r_ret = NoRet
    /\ NoWalk

\* the arena on its own: no list has been built
NoList ==
    /\ head = Null
    /\ nodes = <<>>
    /\ heap = <<>>
    /\ max_height = 1
    /\ rnd = 0
    /\ WriterIdle
    /\ inserted = {}
    /\ mh_stored = {1}
    /\ it_node = Null
    /\ SearchIdle
    /\ r_ret = NoRet
    /\ NoWalk

Aborted == w_pc = "abort"

-----------------------------------------------------------------------------
(* SkipList::insert, one action per step the readers can tell apart *)

\* an assertion that lets a node of key `key` pass
InsertAssertNone(key, x) == TRUE

\* line 223: assert!(x.is_null() || x.key != key)
InsertAssert(key, x) == x = Null \/ nodes[x].key # key

\* lines 221-223: the search and the assertion on its result; the frame of a
\* call that aborted is kept as it was at the assertion
InsertFind(key) ==
    /\ w_pc = "idle"
    /\ LET r == FindGreaterOrEqual(key, head, max_height - 1, NullPrev)
       IN  /\ w_pc' = IF InsertAssert(key, r.ret) THEN "height" ELSE "abort"
           /\ w_key' = key
           /\ w_prev' = r.prev
    /\ UNCHANGED <<w_height, w_node, w_i, inserted, mh_stored>>
    /\ UNCHANGED <<arenaVars, listVars, readerVars>>

\* lines 225-232: random_height and the store of max_height
InsertHeight(zeros) ==
    /\ w_pc = "height"
    /\ LET height == RandomHeight(zeros)
       IN  /\ w_height' = height
           /\ rnd' = rnd + RandomDraws(height)
           /\ IF height > max_height
              THEN /\ w_prev' = [l \in Levels |->
                                   IF max_height <= l /\ l < height THEN head ELSE w_prev[l]]
                   /\ max_height' = height
                   /\ mh_stored' = mh_stored \cup {height}
              ELSE UNCHANGED <<w_prev, max_height, mh_stored>>
    /\ w_pc' = "alloc"
    /\ UNCHANGED <<w_key, w_node, w_i, inserted>>
    /\ UNCHANGED <<arenaVars, head, nodes, heap, readerVars>>

\* lines 234-239: the node is allocated from the arena and written
InsertAlloc(off) ==
    /\ w_pc = "alloc"
    /\ LET r == Allocate(arena, NodeSize, SysBase(arena, off))
       IN  /\ arena' = r.arena
           /\ allocs' = Append(allocs, [ptr |-> r.result, bytes |-> NodeSize, aligned |-> FALSE])
           /\ nodes' = nodes @@ (r.result :> NodeNew(w_key, w_height))
           /\ heap' = VecNew(heap, r.result, w_height)
           /\ w_node' = r.result
    /\ requested' = requested + NodeSize
    /\ UNCHANGED <<freed, dropped>>
    /\ w_i' = 0
    /\ w_pc' = "set_next"
    /\ UNCHANGED <<w_key, w_prev, w_height, inserted, mh_stored>>
    /\ UNCHANGED <<head, max_height, rnd, readerVars>>

\* the new node's pointer left null
NewNodeNextNull(prev, i) == Null

\* the new node given its level-0 successor at every level
NewNodeNextLevelZero(prev, i) == NodeNext(prev[0], 0)

\* the new node pointing back at its predecessor
NewNodeNextPrev(prev, i) == prev[i]

\* line 244: the pointer the new node gets, prev[i].no_barrier_next(i)
NewNodeNext(prev, i) == NodeNext(prev[i], i)

\* line 244: new_node.no_barrier_set_next(i, prev[i].no_barrier_next(i))
InsertSetNext ==
    /\ w_pc = "set_next"
    /\ nodes' = SetNext(nodes, w_node, w_i, NewNodeNext(w_prev, w_i))
    /\ w_pc' = "publish"
    /\ UNCHANGED <<w_key, w_prev, w_height, w_node, w_i, inserted, mh_stored>>
    /\ UNCHANGED <<arenaVars, head, max_height, rnd, heap, readerVars>>

\* the levels published from the top one down
InsertPublishStoreTopDown(ns, prev, i, new_node) ==
    SetNext(ns, prev[w_height - 1 - i], w_height - 1 - i, new_node)

\* line 245: the store that publishes new_node at level i
InsertPublishStore(ns, prev, i, new_node) == SetNext(ns, prev[i], i, new_node)

\* line 245: prev[i].set_next(i, new_node); the loop ends after level height - 1
InsertPublish ==
    /\ w_pc = "publish"
    /\ nodes' = InsertPublishStore(nodes, w_prev, w_i, w_node)
    /\ IF w_i + 1 < w_height
       THEN /\ w_i' = w_i + 1
            /\ w_pc' = "set_next"
            /\ UNCHANGED <<w_key, w_prev, w_height, w_node, inserted>>
       ELSE /\ WriterReturn
            /\ inserted' = inserted \cup {w_key}
    /\ UNCHANGED mh_stored
    /\ UNCHANGED <<arenaVars, head, max_height, rnd, heap, readerVars>>

-----------------------------------------------------------------------------
(* SkipListIterator and SkipList::contains, as one reader thread runs them. *)
(* A search takes one action per iteration of its loop (one load of a       *)
(* forward pointer); `h` is the value its relaxed load of max_height read.  *)
(* `watch` says whether the history of the reader's calls is kept (r_ret    *)
(* and the walk): it changes nothing the program does.                      *)

\* SkipListIterator::valid
Valid(node) == node # Null

\* SkipListIterator::key
KeyOf(node) == nodes[node].key

\* what key() reports once the cursor has moved to `node`
Reported(node) == IF Valid(node) THEN <<KeyOf(node)>> ELSE <<>>

\* history: a walk begins with the cursor about to be placed
BeginWalk(watch, kind, target, reported) ==
    IF watch
    THEN /\ walk_kind' = kind
         /\ walk_target' = target
         /\ walk' = reported
         /\ walk_snap' = inserted
         /\ walk_seen' = IF kind = "seek" THEN {k \in LevelZeroKeys : k >= target} ELSE {}
    ELSE UNCHANGED walkVars

\* history: the cursor has moved to `node`, in the direction of walks of `kinds`
ExtendWalk(watch, kinds, node) ==
    IF watch
    THEN IF walk_kind \in kinds
         THEN /\ walk' = walk \o Reported(node)
              /\ UNCHANGED <<walk_kind, walk_target, walk_snap, walk_seen>>
         ELSE /\ walk_kind' = "mixed"
              /\ walk_target' = DefaultKey
              /\ walk' = <<>>
              /\ walk_snap' = {}
              /\ walk_seen' = {}
    ELSE UNCHANGED walkVars

\* history: the value of contains is forgotten when the next call begins
ForgetRet(watch) == IF watch THEN r_ret' = NoRet ELSE UNCHANGED r_ret

BeginSearch(pc, op, key, h) ==
    /\ ~Aborted
    /\ r_pc' = pc
    /\ r_op' = op
    /\ r_key' = key
    /\ r_x' = head
    /\ r_level' = h - 1

ContinueSearch(s) ==
    /\ r_x' = s.x
    /\ r_level' = s.level
    /\ UNCHANGED <<r_pc, r_op, r_key>>

\* SkipListIterator::new, the cursor before it dropped
IterNew ==
    /\ ~Aborted
    /\ r_pc = "idle"
    /\ it_node' = Null
    /\ ForgetWalk
    /\ r_ret' = NoRet
    /\ UNCHANGED searchVars
    /\ UNCHANGED <<arenaVars, listVars, writerVars>>

\* SkipListIterator::seek_to_first
SeekToFirst(watch) ==
    /\ ~Aborted
    /\ r_pc = "idle"
    /\ it_node' = NodeNext(head, 0)
    /\ BeginWalk(watch, "first", DefaultKey, Reported(it_node'))
    /\ ForgetRet(watch)
    /\ UNCHANGED searchVars
    /\ UNCHANGED <<arenaVars, listVars, writerVars>>

\* SkipListIterator::next; assert!(self.valid()) is the guard
Next(watch) ==
    /\ ~Aborted
    /\ r_pc = "idle"
    /\ Valid(it_node)
    /\ it_node' = NodeNext(it_node, 0)
    /\ ExtendWalk(watch, {"first", "seek"}, it_node')
    /\ ForgetRet(watch)
    /\ UNCHANGED searchVars
    /\ UNCHANGED <<arenaVars, listVars, writerVars>>

\* SkipListIterator::seek: the call of find_greater_or_equal(target, None)
SeekBegin(watch, target, h) ==
    /\ r_pc = "idle"
    /\ BeginSearch("find_greater_or_equal", "seek", target, h)
    /\ BeginWalk(watch, "seek", target, <<>>)
    /\ ForgetRet(watch)
    /\ UNCHANGED it_node
    /\ UNCHANGED <<arenaVars, listVars, writerVars>>

\* SkipList::contains: the call of find_greater_or_equal(key, None)
ContainsBegin(watch, key, h) ==
    /\ r_pc = "idle"
    /\ BeginSearch("find_greater_or_equal", "contains", key, h)
    /\ ForgetRet(watch)
    /\ UNCHANGED <<it_node, walkVars>>
    /\ UNCHANGED <<arenaVars, listVars, writerVars>>

\* contains answering by the node alone, without comparing its key
ContainsResultAnyNode(key, x) == x # Null

\* the match of contains on the node the search returned
ContainsResult(key, x) == x # Null /\ nodes[x].key = key

\* find_greater_or_equal: one iteration; on return, seek stores the node and
\* contains compares its key
FgeRun(watch) ==
    /\ ~Aborted
    /\ r_pc = "find_greater_or_equal"
    /\ LET s == FgeStep(r_key, r_x, r_level)
       IN  IF ~s.done
           THEN /\ ContinueSearch(s)
                /\ UNCHANGED <<it_node, r_ret, walkVars>>
           ELSE /\ SearchReturn
                /\ IF r_op = "seek"
                   THEN /\ it_node' = s.ret
                        /\ IF watch
                           THEN /\ walk' = Reported(s.ret)
                                /\ walk_seen' = {}
                                /\ UNCHANGED <<walk_kind, walk_target, walk_snap>>
                           ELSE UNCHANGED walkVars
                        /\ UNCHANGED r_ret
                   ELSE /\ IF watch
                           THEN r_ret' = [returned |-> TRUE, key |-> r_key,
                                          val |-> ContainsResult(r_key, s.ret)]
                           ELSE UNCHANGED r_ret
                        /\ UNCHANGED <<it_node, walkVars>>
    /\ UNCHANGED <<arenaVars, listVars, writerVars>>

\* SkipListIterator::prev: the call of find_less_than(self.key())
PrevBegin(watch, h) ==
    /\ r_pc = "idle"
    /\ Valid(it_node)
    /\ BeginSearch("find_less_than", "prev", KeyOf(it_node), h)
    /\ ForgetRet(watch)
    /\ UNCHANGED <<it_node, walkVars>>
    /\ UNCHANGED <<arenaVars, listVars, writerVars>>

\* SkipListIterator::seek_to_last: the call of find_last()
SeekToLastBegin(watch, h) ==
    /\ r_pc = "idle"
    /\ BeginSearch("find_last", "seek_to_last", DefaultKey, h)
    /\ BeginWalk(watch, "last", DefaultKey, <<>>)
    /\ ForgetRet(watch)
    /\ UNCHANGED it_node
    /\ UNCHANGED <<arenaVars, listVars, writerVars>>

\* the head handed to the cursor as it is
NotHeadKept(x) == x

\* prev and seek_to_last: the head stands for "no node"
NotHead(x) == IF x = head THEN Null ELSE x

\* find_less_than: one iteration; on return, prev stores the node
FltRun(watch) ==
    /\ ~Aborted
    /\ r_pc = "find_less_than"
    /\ LET s == FltStep(r_key, r_x, r_level)
       IN  IF ~s.done
           THEN /\ ContinueSearch(s)
                /\ UNCHANGED <<it_node, walkVars>>
           ELSE /\ SearchReturn
                /\ it_node' = NotHead(s.ret)
                /\ ExtendWalk(watch, {"last"}, it_node')
    /\ UNCHANGED r_ret
    /\ UNCHANGED <<arenaVars, listVars, writerVars>>

\* find_last: one iteration; on return, seek_to_last stores the node
FindLastRun(watch) ==
    /\ ~Aborted
    /\ r_pc = "find_last"
    /\ LET s == FindLastStep(r_x, r_level)
       IN  IF ~s.done
           THEN /\ ContinueSearch(s)
                /\ UNCHANGED <<it_node, walkVars>>
           ELSE /\ SearchReturn
                /\ it_node' = NotHead(s.ret)
                /\ IF watch
                   THEN /\ walk' = Reported(it_node')
                        /\ UNCHANGED <<walk_kind, walk_target, walk_snap, walk_seen>>
                   ELSE UNCHANGED walkVars
    /\ UNCHANGED r_ret
    /\ UNCHANGED <<arenaVars, listVars, writerVars>>

-----------------------------------------------------------------------------
(* Specifications *)

\* The owner alone: inserts one after the other, of any heights up to
\* MAX_HEIGHT, every store of a forward pointer a step of its own.
InsertNext ==
    \/ \E key \in Keys : InsertFind(key)
    \/ \E zeros \in TallZeros : InsertHeight(zeros)
    \/ \E off \in BaseOffsets : InsertAlloc(off)
    \/ InsertSetNext
    \/ InsertPublish

SpecInsert == ListInit /\ [][InsertNext]_vars

\* Safe Rust: insert takes &mut self, so it is called only while no cursor
\* borrows the list and no &self call is running; the reader's calls begin
\* only when insert has returned, and their loads read what it stored.
NoCursor == r_pc = "idle" /\ walk_kind = "none" /\ it_node = Null /\ r_ret = NoRet

NoInsert == w_pc = "idle" /\ ~dropped

\* The list goes out of scope: SkipList has no Drop of its own, so its fields
\* are dropped; `head` is a raw pointer, the nodes written into the arena with
\* ptr::write are never dropped (their Vecs keep their buffers), and Drop for
\* Arena runs.  The same action drops an arena that no list owns.
Drop ==
    /\ NoCursor
    /\ NoInsert
    /\ dropped' = TRUE
    /\ freed' = ArenaDrop(arena)
    /\ UNCHANGED <<arena, allocs, requested>>
    /\ UNCHANGED <<listVars, writerVars, readerVars>>

SeqNext ==
    \/ \E key \in Keys : NoCursor /\ ~dropped /\ InsertFind(key)
    \/ \E zeros \in 0 .. MaxRandomHeight - 1 : InsertHeight(zeros)
    \/ \E off \in BaseOffsets : InsertAlloc(off)
    \/ InsertSetNext
    \/ InsertPublish
    \/ NoInsert /\ IterNew
    \/ NoInsert /\ SeekToFirst(TRUE)
    \/ NoInsert /\ Next(TRUE)
    \/ \E target \in Keys, h \in {max_height} : NoInsert /\ SeekBegin(TRUE, target, h)
    \/ \E key \in Keys, h \in {max_height} : NoInsert /\ ContainsBegin(TRUE, key, h)
    \/ \E h \in {max_height} : NoInsert /\ PrevBegin(TRUE, h)
    \/ \E h \in {max_height} : NoInsert /\ SeekToLastBegin(TRUE, h)
    \/ FgeRun(TRUE)
    \/ FltRun(TRUE)
    \/ FindLastRun(TRUE)
    \/ Drop

Spec == ListInit /\ [][SeqNext]_vars

\* One writer and one reader thread, interleaved at every load and store of a
\* forward pointer; max_height is relaxed, so a load may read any stored value.
ConcWriter ==
    \/ \E key \in ConcKeys : InsertFind(key)
    \/ \E zeros \in 0 .. ConcMaxRandomHeight - 1 : InsertHeight(zeros)
    \/ \E off \in BaseOffsets : InsertAlloc(off)
    \/ InsertSetNext
    \/ InsertPublish

ConcNext ==
    \/ ConcWriter
    \/ IterNew
    \/ SeekToFirst(TRUE)
    \/ Next(TRUE)
    \/ \E target \in ConcKeys, h \in mh_stored : SeekBegin(TRUE, target, h)
    \/ \E key \in ConcKeys, h \in mh_stored : ContainsBegin(TRUE, key, h)
    \/ \E h \in mh_stored : PrevBegin(TRUE, h)
    \/ \E h \in mh_stored : SeekToLastBegin(TRUE, h)
    \/ FgeRun(TRUE)
    \/ FltRun(TRUE)
    \/ FindLastRun(TRUE)

SpecConc == ListInit /\ [][ConcNext]_vars

\* The same threads, without the history of the reader's calls, when the
\* reader's thread is scheduled again and again; nothing is asked of the
\* writer, which may stop anywhere.
ReaderRun == FgeRun(FALSE) \/ FltRun(FALSE) \/ FindLastRun(FALSE)

LiveNext ==
    \/ ConcWriter
    \/ IterNew
    \/ SeekToFirst(FALSE)
    \/ Next(FALSE)
    \/ \E target \in ConcKeys, h \in mh_stored : SeekBegin(FALSE, target, h)
    \/ \E key \in ConcKeys, h \in mh_stored : ContainsBegin(FALSE, key, h)
    \/ \E h \in mh_stored : PrevBegin(FALSE, h)
    \/ \E h \in mh_stored : SeekToLastBegin(FALSE, h)
    \/ ReaderRun

SpecLive == ListInit /\ [][LiveNext]_vars /\ WF_vars(ReaderRun)

-----------------------------------------------------------------------------
(* The arena on its own: any sequence of allocate / allocate_aligned calls  *)
(* with n > 0 on a fresh arena (as test_arena_simple drives it), then its   *)
(* drop.                                                                    *)

ArenaInit ==
    /\ arena = ArenaNew
    /\ allocs = <<>>
    /\ requested = 0
    /\ freed = <<>>
    /\ dropped = FALSE
    /\ NoList

DoAllocate(n, off) ==
    /\ ~dropped
    /\ ~Aborted
    /\ Len(allocs) < MaxAllocs
    /\ IF n > 0
       THEN /\ LET r == Allocate(arena, n, SysBase(arena, off))
               IN  /\ arena' = r.arena
                   /\ allocs' = Append(allocs, [ptr |-> r.result, bytes |-> n, aligned |-> FALSE])
            /\ requested' = requested + n
            /\ UNCHANGED w_pc
       ELSE \* assert!(bytes > 0)
            /\ w_pc' = "abort"
            /\ UNCHANGED <<arena, allocs, requested>>
    /\ UNCHANGED <<freed, dropped>>
    /\ UNCHANGED <<w_key, w_prev, w_height, w_node, w_i, inserted, mh_stored>>
    /\ UNCHANGED <<listVars, readerVars>>

\* allocate_aligned asserts nothing about `bytes`
DoAllocateAligned(n, off) ==
    /\ ~dropped
    /\ ~Aborted
    /\ Len(allocs) < MaxAllocs
    /\ LET r == AllocateAligned(arena, n, SysBase(arena, off))
       IN  /\ arena' = r.arena
           /\ allocs' = Append(allocs, [ptr |-> r.result, bytes |-> n, aligned |-> TRUE])
    /\ requested' = requested + n
    /\ UNCHANGED <<freed, dropped>>
    /\ UNCHANGED <<listVars, writerVars, readerVars>>

ArenaNext ==
    \/ \E n \in Sizes, off \in BaseOffsets : DoAllocate(n, off)
    \/ \E n \in Sizes, off \in BaseOffsets : DoAllocateAligned(n, off)
    \/ Drop

SpecArena == ArenaInit /\ [][ArenaNext]_vars

\* The same arena when the caller may also ask for 0 bytes.
AnySizes == Sizes \cup {0}

ArenaAnyNext ==
    \/ \E n \in AnySizes, off \in BaseOffsets : DoAllocate(n, off)
    \/ \E n \in AnySizes, off \in BaseOffsets : DoAllocateAligned(n, off)
    \/ Drop

SpecArenaAny == ArenaInit /\ [][ArenaAnyNext]_vars

-----------------------------------------------------------------------------
(* Properties *)

Min(S) == CHOOSE m \in S : \A k \in S : m <= k

Max(S) == CHOOSE m \in S : \A k \in S : k <= m

\* the keys of S in increasing order
RECURSIVE Ascending(_)
Ascending(S) == IF S = {} THEN <<>> ELSE <<Min(S)>> \o Ascending(S \ {Min(S)})

\* the keys of S in decreasing order
RECURSIVE Descending(_)
Descending(S) == IF S = {} THEN <<>> ELSE <<Max(S)>> \o Descending(S \ {Max(S)})

IsPrefix(s, t) == Len(s) <= Len(t) /\ \A i \in 1 .. Len(s) : s[i] = t[i]

Range(s) == {s[i] : i \in 1 .. Len(s)}

\* the cursor is where the last key of its walk says: at that key's node, or,
\* when it is invalid, past every key of `all`
WalkIs(all) ==
    /\ IsPrefix(walk, all)
    /\ Valid(it_node) => walk # <<>> /\ walk[Len(walk)] = KeyOf(it_node)
    /\ ~Valid(it_node) => walk = all

\* C1: once the inserts of distinct keys have returned, contains(k) returns
\* true if and only if k is one of the inserted keys.
SetSemantics ==
    r_ret.returned => (r_ret.val <=> r_ret.key \in inserted)

SetSemanticsWitness ==
    /\ r_ret.returned
    /\ r_ret.val
    /\ Cardinality(inserted) = MaxKey
    /\ max_height > 1

\* C2: with no insert in progress, a cursor positioned by seek_to_first and
\* advanced by next reports the inserted keys in strictly increasing order,
\* each once, and is invalid exactly after the last of them (at once on an
\* empty list).
OrderedTraversal ==
    walk_kind = "first" /\ r_pc = "idle" =>
        /\ WalkIs(Ascending(inserted))
        /\ \A i, j \in 1 .. Len(walk) : i < j => walk[i] < walk[j]

OrderedTraversalWitness ==
    /\ walk_kind = "first"
    /\ r_pc = "idle"
    /\ ~Valid(it_node)
    /\ Len(walk) = MaxKey
    /\ max_height > 1

\* C3: with no insert in progress, after seek(t) the cursor is invalid iff
\* every inserted key is < t; otherwise it is at the least inserted key >= t,
\* and next reports the following inserted keys in increasing order.
SeekCorrectness ==
    walk_kind = "seek" /\ r_pc = "idle" =>
        LET S == {k \in inserted : k >= walk_target}
        IN  /\ WalkIs(Ascending(S))
            /\ S = {} => ~Valid(it_node)
            /\ walk # <<>> => walk[1] = Min(S)

SeekCorrectnessWitness ==
    /\ walk_kind = "seek"
    /\ r_pc = "idle"
    /\ walk_target > 0
    /\ walk_target \notin inserted
    /\ Len(walk) = 1
    /\ Cardinality(inserted) > 1
    /\ \E k \in inserted : k < walk_target

\* C4: with no insert in progress, a cursor positioned by seek_to_last and
\* moved by prev reports the inserted keys in strictly decreasing order, each
\* once, starting at the greatest, and is invalid exactly after the least.
ReverseTraversal ==
    walk_kind = "last" /\ r_pc = "idle" =>
        /\ WalkIs(Descending(inserted))
        /\ \A i, j \in 1 .. Len(walk) : i < j => walk[i] > walk[j]
        /\ walk # <<>> => walk[1] = Max(inserted)

ReverseTraversalWitness ==
    /\ walk_kind = "last"
    /\ r_pc = "idle"
    /\ ~Valid(it_node)
    /\ Len(walk) = MaxKey
    /\ max_height > 1

\* C5: for a reader running beside the writer, every key a seek(t) / next
\* walk reports is >= t and no reported key is less than an earlier one.
NoRegression ==
    walk_kind = "seek" =>
        /\ \A i \in 1 .. Len(walk) : walk[i] >= walk_target
        /\ \A i, j \in 1 .. Len(walk) : i < j => walk[i] <= walk[j]

\* a walk that reported a key whose insert returned after the walk began
NoRegressionWitness ==
    /\ walk_kind = "seek"
    /\ Len(walk) > 1
    /\ walk[1] \notin walk_snap
    /\ walk_target > 0 \/ w_pc # "idle"

\* C6: a seek(t) / next walk never passes a key k >= t whose insert had
\* returned before the walk began: when the cursor is beyond k (at a greater
\* key, or invalid), the walk has reported k.
NoSkip ==
    walk_kind = "seek" /\ r_pc = "idle" =>
        \A k \in walk_snap :
            k >= walk_target /\ (~Valid(it_node) \/ k < KeyOf(it_node)) => k \in Range(walk)

\* a walk that reported a key inserted meanwhile, then a key inserted before
NoSkipWitness ==
    /\ walk_kind = "seek"
    /\ r_pc = "idle"
    /\ Len(walk) > 1
    /\ walk[1] \notin walk_snap
    /\ walk[2] \in walk_snap

\* C7: every search a reader has begun returns, whatever the writer does
\* meanwhile (it may stop for good inside an insert), unless the process
\* aborts: the reader is scheduled again and again, the writer need not be.
ReadersTerminate == (r_pc # "idle") ~> (r_pc = "idle" \/ Aborted)

\* a search that began at a level max_height announces and no node is wired at
ReadersTerminateWitness ==
    /\ r_pc # "idle"
    /\ w_pc = "publish"
    /\ r_x = head
    /\ r_level > 0
    /\ w_height > r_level
    /\ NodeNext(head, r_level) = Null

\* C8: every range [p, p + n) that allocate or allocate_aligned returned lies
\* inside one block of the arena, and no two returned ranges overlap.
InOneBlock(a) ==
    \E b \in 1 .. Len(arena.blocks) :
        /\ arena.blocks[b] <= a.ptr
        /\ a.ptr + a.bytes <= arena.blocks[b] + arena.layouts[b]

Disjoint(a, b) == a.ptr + a.bytes <= b.ptr \/ b.ptr + b.bytes <= a.ptr

ArenaStability ==
    /\ \A i \in 1 .. Len(allocs) : InOneBlock(allocs[i])
    /\ \A i, j \in 1 .. Len(allocs) : i < j => Disjoint(allocs[i], allocs[j])

\* a dedicated block was obtained and a later, padded request was still
\* served from the block that was current before it
ArenaStabilityWitness ==
    \E j, k \in 1 .. Len(allocs) :
        /\ j < k
        /\ allocs[j].bytes > BLOCK_SIZE \div 4
        /\ allocs[k].aligned
        /\ \A b \in 1 .. Len(arena.blocks) : arena.blocks[b] # allocs[k].ptr
        /\ \E i \in 1 .. j - 1 : allocs[i].ptr + allocs[i].bytes < allocs[k].ptr
                                 /\ allocs[k].ptr < allocs[i].ptr + allocs[i].bytes + Align

\* C9: every pointer allocate_aligned returned is a multiple of Align,
\* whatever base the allocator gave the blocks.
AlignedPointers ==
    \A i \in 1 .. Len(allocs) : allocs[i].aligned => allocs[i].ptr % Align = 0

\* C10: memory_usage() is the sum over the blocks obtained of block size +
\* pointer size, is at least the bytes requested so far, and never decreases.
RECURSIVE SumOfBlocks(_)
SumOfBlocks(layouts) ==
    IF layouts = <<>> THEN 0 ELSE Head(layouts) + PtrSize + SumOfBlocks(Tail(layouts))

MemoryUsageAccounting ==
    /\ [](MemoryUsage(arena) = SumOfBlocks(arena.layouts))
    /\ [](MemoryUsage(arena) >= requested)
    /\ [][MemoryUsage(arena)' >= MemoryUsage(arena)]_vars

\* more than a block's worth was requested, from dedicated and shared blocks
MemoryUsageAccountingWitness ==
    /\ requested > BLOCK_SIZE
    /\ \E b \in 1 .. Len(arena.layouts) : arena.layouts[b] = BLOCK_SIZE
    /\ \E b \in 1 .. Len(arena.layouts) : arena.layouts[b] # BLOCK_SIZE
    /\ arena.alloc_bytes_remaining < BLOCK_SIZE - 1

\* C11: once the arena is dropped, every block it obtained has been handed
\* to dealloc exactly once, with the Layout size it was obtained with.
ArenaDisposal ==
    dropped =>
        /\ Len(freed) = Len(arena.blocks)
        /\ \A b \in 1 .. Len(arena.blocks) :
               \E f \in 1 .. Len(freed) :
                   /\ freed[f] = [ptr |-> arena.blocks[b], bytes |-> arena.layouts[b]]
                   /\ \A g \in 1 .. Len(freed) : freed[g].ptr = freed[f].ptr => g = f

\* C12: every node, the head included, and every forward-pointer array lies
\* inside a block of the list's arena, so that nothing obtained for the list
\* is still allocated once the list is dropped.
AllInArena ==
    /\ \A n \in DOMAIN nodes : InOneBlock([ptr |-> n, bytes |-> NodeSize])
    /\ \A v \in 1 .. Len(heap) : InOneBlock(heap[v])
    /\ dropped => Len(freed) = Len(arena.blocks) /\ heap = <<>>

\* C14: no call that asked for 0 bytes returns a pointer or changes the
\* arena: the process aborts instead.
ZeroByteFatal ==
    [][/\ Len(allocs') > Len(allocs) => allocs'[Len(allocs')].bytes > 0
       /\ Aborted' => arena' = arena]_vars

\* C13: insert(k) with k present aborts at the assertion after the search,
\* and only then; the step that aborts draws no height and leaves the nodes,
\* max height, the arena and the random source as they were.
DuplicateInsertFatal ==
    /\ [](Aborted => w_key \in inserted)
    /\ [](w_pc \in {"height", "alloc", "set_next", "publish"} => w_key \notin inserted)
    /\ [][Aborted' => UNCHANGED <<arenaVars, listVars>> /\ w_height' = 0 /\ w_node' = Null]_vars

\* a duplicate of a key below which and above which others are linked
DuplicateInsertFatalWitness ==
    /\ Aborted
    /\ Cardinality(inserted) = MaxKey
    /\ w_key = 1
    /\ max_height > 1
    /\ rnd > MaxKey

\* C15: a fresh cursor is invalid, and whatever seek, seek_to_first,
\* seek_to_last, next and prev calls are made beside the inserts, the
\* cursor's node is null or a node linked into the list, never the head; so
\* it is invalid on a list that holds no node.
CursorState ==
    /\ walk_kind = "none" => ~Valid(it_node)
    /\ Valid(it_node) => it_node # head /\ it_node \in Reachable(0)
    /\ Reachable(0) = {} => ~Valid(it_node)

\* seek_to_last returned on a list whose first node is allocated, not linked
CursorStateWitness ==
    /\ walk_kind = "last"
    /\ r_pc = "idle"
    /\ ~Valid(it_node)
    /\ Reachable(0) = {}
    /\ w_pc = "set_next"
    /\ max_height > 1

\* following at most `fuel` pointers from x at `level` ends at null
RECURSIVE ChainEnds(_, _, _)
ChainEnds(x, level, fuel) ==
    \/ NodeNext(x, level) = Null
    \/ fuel > 0 /\ ChainEnds(NodeNext(x, level), level, fuel - 1)

\* C16: in every state, those between two pointer writes of an insert
\* included, each forward pointer of an inserted node is null or points to a
\* node of that level with a strictly greater key, and the chain from the
\* head at every level ends at null without passing a node twice.
PerLevelOrdering ==
    /\ \A n \in DOMAIN nodes : \A l \in DOMAIN nodes[n].next :
           LET next == NodeNext(n, l)
           IN  next # Null =>
                   /\ next \in DOMAIN nodes
                   /\ l \in DOMAIN nodes[next].next
                   /\ n # head => nodes[next].key > nodes[n].key
    /\ \A l \in Levels : ChainEnds(head, l, Cardinality(DOMAIN nodes) - 1)

\* a node taller than its neighbours is linked below and not yet above,
\* between a lesser and a greater key
PerLevelOrderingWitness ==
    /\ w_pc = "publish"
    /\ w_i > 0
    /\ \E a, b \in Reachable(0) :
           /\ nodes[a].key < w_key /\ w_key < nodes[b].key
           /\ NodeNext(a, 0) = w_node /\ NodeNext(w_node, 0) = b
           /\ w_height = MAX_HEIGHT
           /\ NodeNext(head, 1) = a

\* C17: in every state, those between the per-level writes of an insert
\* included, every node reachable from the head at a level >= 1 is
\* reachable at level 0: level 0 holds the union of all levels.
LevelSubset ==
    /\ \A l \in Levels : Reachable(l) \subseteq Reachable(0)
    /\ Reachable(0) = UNION {Reachable(l) : l \in Levels}

\* the new node is linked at levels 0 and 1 and not yet at level 2, which
\* another node is linked at
LevelSubsetWitness ==
    /\ w_pc = "set_next"
    /\ w_i = 2
    /\ w_node \in Reachable(1)
    /\ w_node \notin Reachable(2)
    /\ Reachable(2) # {}
    /\ Cardinality(Reachable(1)) > 1
    /\ Cardinality(Reachable(0)) > Cardinality(Reachable(1))

\* Node height: the length of its `next`
Height(n) == Cardinality(DOMAIN nodes[n].next)

\* C18: max_height is always within 1 .. MAX_HEIGHT, as is every height
\* random_height returns, and whenever no insert is in progress it is the
\* greatest height of an inserted node, or 1 when there is none.
MaxHeightInvariant ==
    /\ max_height \in 1 .. MAX_HEIGHT
    /\ w_pc \in {"alloc", "set_next", "publish"} => w_height \in 1 .. MAX_HEIGHT
    /\ w_pc \in {"idle", "abort"} =>
           max_height = Max({1} \cup {Height(n) : n \in DOMAIN nodes \ {head}})

\* the source yielded more zeros than random_height reads, then none
MaxHeightInvariantWitness ==
    /\ w_pc = "idle"
    /\ max_height = MAX_HEIGHT
    /\ rnd = MAX_HEIGHT + MaxKey - 2
    /\ Cardinality(inserted) = MaxKey
    /\ \E n \in DOMAIN nodes : n # head /\ Height(n) = 1 /\ nodes[n].key = 0

\* a store that overwrites the level-l pointer of p, a node searches reach at l
Publishes(p, l) ==
    /\ p = head \/ p \in Reachable(l)
    /\ nodes'[p].next[l] # nodes[p].next[l]

\* C19: a store that overwrites a reachable node's level-l pointer puts
\* there a node that is already written, whose level-l pointer already is
\* the overwritten one and which is already linked at every lower level;
\* the node being inserted is reachable only at levels it is wired at; and
\* no store takes a node out of the chain of any level.
PublicationOrder ==
    /\ [][\A p \in DOMAIN nodes : \A l \in DOMAIN nodes[p].next :
             Publishes(p, l) =>
                 LET n == nodes'[p].next[l]
                 IN  /\ n \in DOMAIN nodes
                     /\ nodes'[n] = nodes[n]
                     /\ nodes[n].next[l] = nodes[p].next[l]
                     /\ \A k \in 0 .. l - 1 : n \in Reachable(k)]_vars
    /\ [](\A l \in Levels : w_node \in Reachable(l) => l < w_i)
    /\ [][\A l \in Levels : Reachable(l) \subseteq Reachable(l)']_vars

\* the store that links a node at level 1 between two nodes of that level
PublicationOrderWitness ==
    /\ w_pc = "set_next"
    /\ w_i = 2
    /\ \E a, b \in Reachable(1) :
           /\ NodeNext(a, 1) = w_node
           /\ NodeNext(w_node, 1) = b
           /\ Height(a) < Height(b)

\* C20: a find_greater_or_equal(t) running beside an insert, whichever
\* stored value of max_height it read, is always at a node and at a level
\* that node has (it loads no pointer of null), and returns null or a node
\* of key >= t with no key linked at level 0 before the search began in
\* [t, returned key).
StaleHeightHarmless ==
    /\ [](r_pc = "find_greater_or_equal" =>
             /\ r_x \in DOMAIN nodes
             /\ r_level \in DOMAIN nodes[r_x].next)
    /\ [][r_pc = "find_greater_or_equal" /\ r_op = "seek" /\ r_pc' = "idle" =>
             /\ Valid(it_node') => KeyOf(it_node') >= walk_target
             /\ \A k \in walk_seen : Valid(it_node') /\ KeyOf(it_node') <= k]_vars

\* a search that read the new max_height stands at the head on a level no
\* node is linked at yet, while a key it looks for is linked below
StaleHeightHarmlessWitness ==
    /\ r_pc = "find_greater_or_equal"
    /\ r_op = "seek"
    /\ r_x = head
    /\ r_level > 0
    /\ r_level = max_height - 1
    /\ NodeNext(head, r_level) = Null
    /\ w_pc \in {"alloc", "set_next", "publish"}
    /\ walk_seen # {}

\* the last node of the level-l chain whose key is less than `key`, or the
\* head when the chain has none
LastLess(l, key) ==
    LET below == {n \in Reachable(l) : nodes[n].key < key}
    IN  IF below = {}
        THEN head
        ELSE CHOOSE n \in below : \A m \in below : nodes[m].key <= nodes[n].key

\* insert holds the prev array its search returned
HoldsPrev == w_pc \in {"height", "alloc", "set_next", "publish", "abort"}

\* C21, as stated: when find_greater_or_equal(key, prev) has returned,
\* prev[L] is at every level L of the array the last node of level L with a
\* key less than `key`, or the head where there is none.
PrevAtEveryLevel ==
    w_pc \in {"height", "abort"} => \A l \in Levels : w_prev[l] = LastLess(l, w_key)

\* C21, amended: that holds at the levels below max_height; at the levels
\* from max_height up the search stores nothing and prev[L] is the null the
\* caller put there, until insert itself stores the head at the levels
\* [max_height, H) and raises max_height to H; so through the whole of insert
\* prev[L] is the splice point at every level below max_height.
PredecessorArray ==
    HoldsPrev =>
        \A l \in Levels :
            w_prev[l] = IF l < max_height THEN LastLess(l, w_key) ELSE Null

\* the search returned a node at level 0, the head at the top level in use,
\* and left the levels above null
PredecessorArrayWitness ==
    /\ w_pc = "height"
    /\ max_height > 1
    /\ max_height < MAX_HEIGHT
    /\ w_prev[0] # head
    /\ w_prev[max_height - 1] = head
    /\ w_prev[max_height] = Null
    /\ NodeNext(head, max_height - 1) # Null

\* the bytes the call that returned `a` needed of the current block of `ar`
NeededBytes(ar, a) ==
    IF a.aligned /\ ar.alloc_ptr % Align # 0
    THEN a.bytes + (Align - (ar.alloc_ptr % Align))
    ELSE a.bytes

\* the block list of ar grew by one block of `size` bytes, which is at `base`
NewBlock(ar, br, size, base) ==
    /\ br.blocks = Append(ar.blocks, base)
    /\ br.layouts = Append(ar.layouts, size)

\* C22: when a request of n bytes does not fit in the current block, then
\* if n > BLOCK_SIZE / 4 a block of exactly n bytes is obtained and
\* returned and the bump pointer and remaining-bytes counter stay as they
\* were; otherwise a BLOCK_SIZE block is obtained and becomes current, the
\* request is served from its start and BLOCK_SIZE - n bytes remain.
FallbackPolicy ==
    [][Len(allocs') > Len(allocs) =>
          LET a == allocs'[Len(allocs')]
          IN  NeededBytes(arena, a) > arena.alloc_bytes_remaining =>
                  IF a.bytes > BLOCK_SIZE \div 4
                  THEN /\ NewBlock(arena, arena', a.bytes, a.ptr)
                       /\ arena'.alloc_ptr = arena.alloc_ptr
                       /\ arena'.alloc_bytes_remaining = arena.alloc_bytes_remaining
                  ELSE /\ NewBlock(arena, arena', BLOCK_SIZE, a.ptr)
                       /\ arena'.alloc_ptr = a.ptr + a.bytes
                       /\ arena'.alloc_bytes_remaining = BLOCK_SIZE - a.bytes]_vars

\* the first request opened a BLOCK_SIZE block; after a dedicated block was
\* obtained, a 1-byte request was bumped from the block current before it
FallbackPolicyWitness ==
    /\ arena.layouts = <<BLOCK_SIZE, BLOCK_SIZE \div 4 + 1>>
    /\ arena.alloc_ptr > arena.blocks[1]
    /\ arena.alloc_ptr < arena.blocks[1] + BLOCK_SIZE
    /\ \E j, k \in 1 .. Len(allocs) :
           /\ j < k
           /\ allocs[j].ptr = arena.blocks[2]
           /\ allocs[k].bytes = 1
           /\ arena.blocks[1] < allocs[k].ptr
           /\ allocs[k].ptr < arena.blocks[1] + BLOCK_SIZE

=============================================================================
